---------------------------- MODULE Spec2Model ----------------------------
(***************************************************************************)
(* A model of src/model_hugf.ipynb (final drafts of the notebook): the     *)
(* regex tokenizer SMILESTokenizerHF, and the shape, masking, loss and     *)
(* greedy generation logic of MolGPTModel.                                 *)
(*                                                                         *)
(* Strings are sequences of one-character strings, so that the regular     *)
(* expression can be modelled character by character.                      *)
(***************************************************************************)
EXTENDS Integers, Sequences, FiniteSets, TLC

VARIABLES
    \* ---- SMILESTokenizerHF ----
    vocab,          \* self.vocab: token -> id
    ids_to_tokens,  \* self.ids_to_tokens: id -> token
    text,           \* the string handed to the tokenizer
    tpc,            \* how far the encode/decode pipeline has run on text
    tokens_out,     \* result of _tokenize(text)
    token_ids,      \* result of _convert_token_to_id on every token
    enc_ids,        \* result of build_inputs_with_special_tokens
    dec_tokens,     \* result of _convert_id_to_token on every id
    dec_text,       \* result of convert_tokens_to_string
    vocab_file,     \* lines written by save_vocabulary (empty: not written)
    \* ---- MolGPTModel ----
    config,         \* the MolGPTConfig the model was built with
    mpc,            \* "idle", "forwarded", "loop" (inside generate), "done", "raised"
    input_ids,      \* argument input_ids: B rows of T token ids
    desc_dim,       \* D, the second dimension of argument descriptors ([B, D])
    has_labels,     \* whether forward was given labels
    labels,         \* argument labels: B rows of T token ids
    fwd_out,        \* what forward returned: status, logits, loss
    max_length,     \* argument max_length of generate
    generated,      \* local generated of generate
    steps,          \* iterations of generate's loop that appended a token
    exit,           \* how generate's loop ended: "none", "break", "exhausted", "raised"
    error,          \* the exception that ended the call, "none" without one
    fwd_len         \* longest token sequence handed to forward in this call

tokvars == <<vocab, ids_to_tokens, text, tpc, tokens_out, token_ids, enc_ids,
             dec_tokens, dec_text, vocab_file>>

modelvars == <<config, mpc, input_ids, desc_dim, has_labels, labels, fwd_out,
               max_length, generated, steps, exit, error, fwd_len>>

vars == <<tokvars, modelvars>>

----------------------------------------------------------------------------
(* Bounds of the model.                                                    *)

\* longest input string (in characters) handed to the tokenizer
MaxTextLen == 10

\* config.max_position_embeddings of the modelled configuration
MaxPos == 3

\* config.desc_size of the modelled configuration
DescSize == 2

\* config.n_layers of the modelled configuration
NLayers == 2

\* largest max_length handed to generate
MaxNewTokens == 3

\* batch sizes B of the modelled calls
BatchSizes == {1, 2}

----------------------------------------------------------------------------
(* Helpers on sequences.                                                   *)

RECURSIVE Flatten(_)
Flatten(ss) == IF ss = <<>> THEN <<>> ELSE Head(ss) \o Flatten(Tail(ss))

Range(s) == {s[i] : i \in 1..Len(s)}

----------------------------------------------------------------------------
(* SMILESTokenizerHF.__init__                                              *)

pad_token == <<"<","P","A","D",">">>
bos_token == <<"<","B","O","S",">">>
eos_token == <<"<","E","O","S",">">>
unk_token == <<"<","U","N","K",">">>

\* self.tokens, the fixed token set
tokens == <<
    <<"#">>, <<"%","1","0">>, <<"%","1","1">>, <<"%","1","2">>, <<"(">>, <<")">>, <<"-">>,
    <<"1">>, <<"2">>, <<"3">>, <<"4">>, <<"5">>, <<"6">>, <<"7">>, <<"8">>, <<"9">>, <<"<">>,
    <<"=">>, <<"B">>, <<"B","r">>, <<"C">>, <<"C","l">>, <<"F">>, <<"I">>, <<"N">>, <<"O">>,
    <<"P">>, <<"S">>, <<"[","B","-","]">>, <<"[","B","H","-","]">>, <<"[","B","H","2","-","]">>,
    <<"[","B","H","3","-","]">>, <<"[","B","]">>, <<"[","C","+","]">>, <<"[","C","-","]">>,
    <<"[","C","H","+","]">>, <<"[","C","H","-","]">>, <<"[","C","H","2","+","]">>,
    <<"[","C","H","2","]">>, <<"[","C","H","]">>, <<"[","F","+","]">>, <<"[","H","]">>,
    <<"[","I","+","]">>, <<"[","I","H","2","]">>, <<"[","I","H","]">>, <<"[","N","+","]">>,
    <<"[","N","-","]">>, <<"[","N","H","+","]">>, <<"[","N","H","-","]">>,
    <<"[","N","H","2","+","]">>, <<"[","N","H","3","+","]">>, <<"[","N","]">>,
    <<"[","O","+","]">>, <<"[","O","-","]">>, <<"[","O","H","+","]">>, <<"[","O","]">>,
    <<"[","P","+","]">>, <<"[","P","H","+","]">>, <<"[","P","H","2","+","]">>,
    <<"[","P","H","]">>, <<"[","S","+","]">>, <<"[","S","-","]">>, <<"[","S","H","+","]">>,
    <<"[","S","H","]">>, <<"[","S","e","+","]">>, <<"[","S","e","H","+","]">>,
    <<"[","S","e","H","]">>, <<"[","S","e","]">>, <<"[","S","i","-","]">>,
    <<"[","S","i","H","-","]">>, <<"[","S","i","H","2","]">>, <<"[","S","i","H","]">>,
    <<"[","S","i","]">>, <<"[","b","-","]">>, <<"[","b","H","-","]">>, <<"[","c","+","]">>,
    <<"[","c","-","]">>, <<"[","c","H","+","]">>, <<"[","c","H","-","]">>, <<"[","n","+","]">>,
    <<"[","n","-","]">>, <<"[","n","H","+","]">>, <<"[","n","H","]">>, <<"[","o","+","]">>,
    <<"[","s","+","]">>, <<"[","s","H","+","]">>, <<"[","s","e","+","]">>, <<"[","s","e","]">>,
    <<"b">>, <<"c">>, <<"n">>, <<"o">>, <<"p">>, <<"s">>
  >>

\* self.special_tokens_list
special_tokens_list == <<bos_token, eos_token, pad_token, unk_token>>

\* all_tokens with '<PAD>' listed twice
all_tokens_dup == special_tokens_list \o <<pad_token>> \o tokens

\* self.all_tokens
all_tokens == special_tokens_list \o tokens

\* {token: idx for idx, token in enumerate(all_tokens)}: ids count from 0 and a
\* later occurrence of a token overwrites an earlier one.
MakeVocab(all) ==
    [t \in Range(all) |->
        (CHOOSE i \in 1..Len(all) :
            /\ all[i] = t
            /\ \A j \in 1..Len(all) : all[j] = t => j <= i) - 1]

\* {idx: token for token, idx in vocab.items()}
MakeIdsToTokens(v) ==
    [i \in {v[t] : t \in DOMAIN v} |-> CHOOSE t \in DOMAIN v : v[t] = i]

\* the two dictionaries as the constructor leaves them
BuiltVocab == MakeVocab(all_tokens)
BuiltIdsToTokens == MakeIdsToTokens(BuiltVocab)

----------------------------------------------------------------------------
(* self.pattern: one ordered alternation                                   *)
(*   %\d{2} | \[[^\]]+\] | Cl|Br|Si|Se|As | B|C|N|O|F|P|S|I | [cnospb]      *)
(*   | [0-9] | \( | \) | = | # | - | \/ | \\ | \. | <                       *)

Digits == {"0","1","2","3","4","5","6","7","8","9"}
TwoLetter == {<<"C","l">>, <<"B","r">>, <<"S","i">>, <<"S","e">>, <<"A","s">>}
Upper == {"B","C","N","O","F","P","S","I"}
Lower == {"c","n","o","s","p","b"}
Symbols == {"(", ")", "=", "#", "-", "/", "\\", ".", "<"}

\* \[[^\]]+\] at position i (s[i] = "["): the index of the closing bracket, or 0
\* when the alternative does not match. [^\]]+ takes at least one character and
\* cannot step over a "]", so the match ends at the first "]" after i, which must
\* not directly follow the "[".
BracketEnd(s, i) ==
    LET closers == {j \in (i+1)..Len(s) : s[j] = "]"}
    IN  IF closers = {} THEN 0
        ELSE LET j == CHOOSE k \in closers : \A m \in closers : k <= m
             IN  IF j >= i + 2 THEN j ELSE 0

\* self.pattern with the single letters tried before Cl|Br|Si|Se|As
MatchLenSingleFirst(s, i) ==
    IF /\ s[i] = "%" /\ i + 2 <= Len(s)
       /\ s[i+1] \in Digits /\ s[i+2] \in Digits THEN 3
    ELSE IF s[i] = "[" /\ BracketEnd(s, i) # 0 THEN BracketEnd(s, i) - i + 1
    ELSE IF s[i] \in Upper THEN 1
    ELSE IF i + 1 <= Len(s) /\ <<s[i], s[i+1]>> \in TwoLetter THEN 2
    ELSE IF s[i] \in Lower THEN 1
    ELSE IF s[i] \in Digits THEN 1
    ELSE IF s[i] \in Symbols THEN 1
    ELSE 0

\* Length of the match of self.pattern that starts at position i of s (the first
\* alternative that matches there), 0 when no alternative matches at i.
MatchLen(s, i) ==
    IF /\ s[i] = "%" /\ i + 2 <= Len(s)
       /\ s[i+1] \in Digits /\ s[i+2] \in Digits THEN 3
    ELSE IF s[i] = "[" /\ BracketEnd(s, i) # 0 THEN BracketEnd(s, i) - i + 1
    ELSE IF i + 1 <= Len(s) /\ <<s[i], s[i+1]>> \in TwoLetter THEN 2
    ELSE IF s[i] \in Upper THEN 1
    ELSE IF s[i] \in Lower THEN 1
    ELSE IF s[i] \in Digits THEN 1
    ELSE IF s[i] \in Symbols THEN 1
    ELSE 0

\* findall that emits '<UNK>' for a character no alternative matches
RECURSIVE FindAllUnk(_, _)
FindAllUnk(s, i) ==
    IF i > Len(s) THEN <<>>
    ELSE LET n == MatchLen(s, i)
         IN  IF n = 0 THEN <<unk_token>> \o FindAllUnk(s, i + 1)
             ELSE <<SubSeq(s, i, i + n - 1)>> \o FindAllUnk(s, i + n)

\* self.pattern.findall(text) from position i on: non-overlapping matches, left
\* to right; a position where nothing matches is skipped.
RECURSIVE FindAll(_, _)
FindAll(s, i) ==
    IF i > Len(s) THEN <<>>
    ELSE LET n == MatchLen(s, i)
         IN  IF n = 0 THEN FindAll(s, i + 1)
             ELSE <<SubSeq(s, i, i + n - 1)>> \o FindAll(s, i + n)

\* _tokenize
Tokenize(s) == FindAll(s, 1)

\* _convert_token_to_id: self.vocab.get(token, self.vocab['<UNK>'])
ConvertTokenToId(v, token) == IF token \in DOMAIN v THEN v[token] ELSE v[unk_token]

\* _convert_id_to_token: self.ids_to_tokens.get(index, '<UNK>')
ConvertIdToToken(i2t, index) == IF index \in DOMAIN i2t THEN i2t[index] ELSE unk_token

\* convert_tokens_to_string that joins every token, the special ones too
ConvertTokensToStringKeepAll(ts) == Flatten(ts)

\* convert_tokens_to_string: ''.join(t for t in tokens if t not in special_tokens_list)
ConvertTokensToString(ts) ==
    Flatten(SelectSeq(ts, LAMBDA t : t \notin Range(special_tokens_list)))

\* build_inputs_with_special_tokens
BuildInputsWithSpecialTokens(v, ids) == <<v[bos_token]>> \o ids \o <<v[eos_token]>>

----------------------------------------------------------------------------
(* MolGPTConfig                                                            *)

\* the default of padding_idx
default_padding_idx == 0

MolGPTConfig(vocab_size, padding_idx, n_layers, desc_size, max_position_embeddings) ==
    [vocab_size |-> vocab_size, padding_idx |-> padding_idx, n_layers |-> n_layers,
     desc_size |-> desc_size, max_position_embeddings |-> max_position_embeddings]

\* The modelled configurations: a two-token vocabulary, the default padding
\* index or the other token as padding index, and small sizes in place of the
\* defaults (6 layers, 166 descriptor bits, 512 positions).
Configs ==
    {MolGPTConfig(2, p, NLayers, DescSize, MaxPos) : p \in {default_padding_idx, 1}}

TokenIds(cfg) == 0..(cfg.vocab_size - 1)

----------------------------------------------------------------------------
(* The forward pass. Tensors of real numbers are modelled as terms: a value *)
(* is the expression that computes it, so two values are equal exactly when *)
(* they are computed the same way from the same inputs. Dropout is the      *)
(* identity (eval mode). Every operator below works on one example (one row *)
(* of the batch); the batch is the sequence of its rows.                    *)

NoValue == [op |-> "none"]
NaN == [op |-> "nan"]

\* DescriptorEncoder.forward without its assert
DescriptorEncoderNoAssert(desc_size, D) ==
    [status |-> "ok", emb |-> [k \in 1..D |-> [op |-> "bit", bit |-> k - 1]]]

\* DescriptorEncoder.forward on a [B, D] tensor: the assert comes first; then one
\* embedding per bit index 0..D-1, scaled by the normalized descriptor value.
DescriptorEncoder(desc_size, D) ==
    IF D # desc_size
    THEN [status |-> "AssertionError", emb |-> <<>>]
    ELSE [status |-> "ok", emb |-> [k \in 1..D |-> [op |-> "bit", bit |-> k - 1]]]

\* MolGPTEmbeddings.forward on one row: token embedding plus the embedding of
\* position ids 0..T-1; the position table has max_position_embeddings rows and
\* the lookup of a larger id raises IndexError.
MolGPTEmbeddings(cfg, row) ==
    IF \E t \in 1..Len(row) : t - 1 >= cfg.max_position_embeddings
    THEN [status |-> "IndexError", emb |-> <<>>]
    ELSE [status |-> "ok",
          emb |-> [t \in 1..Len(row) |-> [op |-> "emb", tok |-> row[t], pos |-> t - 1]]]

\* a mask that hides the earlier positions instead of the later ones (tril)
generate_causal_mask_tril(seq_len) ==
    [i \in 1..seq_len |-> [j \in 1..seq_len |-> IF j <= i - 1 THEN "-inf" ELSE "0"]]

\* triu with diagonal=0: the diagonal is masked too
generate_causal_mask_diag0(seq_len) ==
    [i \in 1..seq_len |-> [j \in 1..seq_len |-> IF j >= i THEN "-inf" ELSE "0"]]

\* generate_causal_mask: triu(full(-inf), diagonal=1) keeps -inf where j >= i + 1
\* and is 0 elsewhere
generate_causal_mask(seq_len) ==
    [i \in 1..seq_len |-> [j \in 1..seq_len |-> IF j >= i + 1 THEN "-inf" ELSE "0"]]

\* One TransformerEncoderLayer under an additive mask: position p is computed
\* from itself (the residual) and, by attention, from every position q whose
\* mask entry is not -inf.
EncoderLayer(x, mask) ==
    [p \in 1..Len(x) |->
        [op |-> "layer", self |-> x[p],
         att |-> [q \in {r \in 1..Len(x) : mask[p][r] # "-inf"} |-> x[q]]]]

\* MolGPTTransformer.forward: num_layers layers, each with the same mask
RECURSIVE MolGPTTransformer(_, _, _)
MolGPTTransformer(x, n_layers, mask) ==
    IF n_layers = 0 THEN x
    ELSE MolGPTTransformer(EncoderLayer(x, mask), n_layers - 1, mask)

\* lm_head, applied to every position
LmHead(x) == [p \in 1..Len(x) |-> [op |-> "lm_head", x |-> x[p]]]

\* the leading positions kept instead of the trailing ones
TokenLogitsLeading(logits, n_desc) == SubSeq(logits, 1, Len(logits) - n_desc)

\* logits[:, desc_emb.size(1):, :]
TokenLogits(logits, n_desc) == SubSeq(logits, n_desc + 1, Len(logits))

\* the token logits of one row, given the row's token and descriptor embeddings
RowLogits(cfg, token_emb, desc_emb) ==
    LET x == desc_emb \o token_emb
        attn_mask == generate_causal_mask(Len(x))
        h == MolGPTTransformer(x, cfg.n_layers, attn_mask)
    IN  TokenLogits(LmHead(h), Len(desc_emb))

\* nn.CrossEntropyLoss(ignore_index)(logits.view(-1, V), labels.view(-1)) with the
\* default 'mean' reduction: the cross entropies of the targets that are not
\* ignore_index, summed and divided by their number; with no such target that
\* is 0 / 0, which is NaN.
CrossEntropyLoss(ignore_index, flat_logits, flat_labels) ==
    LET kept == {k \in 1..Len(flat_labels) : flat_labels[k] # ignore_index}
    IN  IF kept = {} THEN NaN
        ELSE [op |-> "mean",
              of |-> [k \in kept |->
                        [op |-> "ce", logits |-> flat_logits[k], target |-> flat_labels[k]]]]

\* MolGPTModel.forward. The token embeddings are computed first, then the
\* descriptor encoder runs; an exception of either ends the call.
Forward(cfg, ids, D, with_labels, labs) ==
    LET token_emb == [b \in 1..Len(ids) |-> MolGPTEmbeddings(cfg, ids[b])]
        desc_emb == DescriptorEncoder(cfg.desc_size, D)
    IN  IF \E b \in 1..Len(ids) : token_emb[b].status # "ok"
        THEN [status |-> "IndexError", logits |-> <<>>, loss |-> NoValue]
        ELSE IF desc_emb.status # "ok"
        THEN [status |-> desc_emb.status, logits |-> <<>>, loss |-> NoValue]
        ELSE LET token_logits ==
                    [b \in 1..Len(ids) |-> RowLogits(cfg, token_emb[b].emb, desc_emb.emb)]
             IN  [status |-> "ok",
                  logits |-> token_logits,
                  loss |-> IF with_labels
                           THEN CrossEntropyLoss(cfg.padding_idx, Flatten(token_logits),
                                                 Flatten(labs))
                           ELSE NoValue]

----------------------------------------------------------------------------
(* Inputs of the model                                                     *)

\* [B, T] tensors of token ids, one position longer than the position table at most
Batches(cfg) ==
    UNION {[1..B -> [1..T -> TokenIds(cfg)]] : B \in BatchSizes, T \in 0..(MaxPos + 1)}

\* descriptor widths D: the configured one, smaller ones and one larger
DescDims == 0..(DescSize + 1)

\* The labels handed to forward with input_ids: the input ids themselves, or as
\* many padding indices.
LabelChoices(cfg, ids) ==
    {ids, [b \in 1..Len(ids) |-> [t \in 1..Len(ids[b]) |-> cfg.padding_idx]]}

\* the stop test on the first example only
StopTestFirstRow(next_token, padding_idx) == next_token[1] = padding_idx

\* (next_token == padding_idx).any()
StopTestAny(next_token, padding_idx) ==
    \E b \in 1..Len(next_token) : next_token[b] = padding_idx

\* (next_token == padding_idx).all()
StopTest(next_token, padding_idx) ==
    \A b \in 1..Len(next_token) : next_token[b] = padding_idx

----------------------------------------------------------------------------
(* Input strings of the tokenizer                                          *)

\* Fragments that are no vocabulary token: pattern matches the vocabulary lacks,
\* characters no alternative matches, broken brackets and ring labels, and the
\* texts of the special tokens.
OtherFragments ==
    { <<"S","i">>, <<"S","e">>, <<"A","s">>, <<"/">>, <<"\\">>, <<".">>, <<"0">>,
      <<"%","1","3">>, <<"%","1">>, <<"%">>, <<"[","X","e","]">>, <<"[","C">>,
      <<"[">>, <<"]">>, <<"l">>, <<"r">>, <<"x">>, <<" ">>, <<">">>, <<"H">>,
      pad_token, bos_token, eos_token, unk_token }

Fragments == Range(tokens) \cup OtherFragments \cup {<<>>}

\* every string made of two fragments, up to MaxTextLen characters
Texts == {t \in {a \o b : a \in Fragments, b \in Fragments} : Len(t) <= MaxTextLen}

----------------------------------------------------------------------------
(* The tokenizer as a state machine                                        *)

\* MolGPTModel.__init__: a model built from one of the configurations, not yet called
ModelBuilt ==
    /\ config \in Configs
    /\ mpc = "idle"
    /\ input_ids = <<>>
    /\ desc_dim = 0
    /\ has_labels = FALSE
    /\ labels = <<>>
    /\ fwd_out = [status |-> "none", logits |-> <<>>, loss |-> NoValue]
    /\ max_length = 0
    /\ generated = <<>>
    /\ steps = 0
    /\ exit = "none"
    /\ error = "none"
    /\ fwd_len = 0

\* SMILESTokenizerHF.__init__; nothing has been tokenized
TokenizerBuilt ==
    /\ vocab = BuiltVocab
    /\ ids_to_tokens = BuiltIdsToTokens
    /\ tpc = "text"
    /\ tokens_out = <<>>
    /\ token_ids = <<>>
    /\ enc_ids = <<>>
    /\ dec_tokens = <<>>
    /\ dec_text = <<>>
    /\ vocab_file = <<>>

\* the tokenizer at work on any of the input strings, beside a model that is not called
InitTokenizer ==
    /\ text \in Texts
    /\ TokenizerBuilt
    /\ config = MolGPTConfig(2, default_padding_idx, NLayers, DescSize, MaxPos)
    /\ ModelBuilt

\* tokens = tokenizer._tokenize(text)
DoTokenize ==
    /\ tpc = "text"
    /\ tokens_out' = Tokenize(text)
    /\ tpc' = "tokens"
    /\ UNCHANGED <<vocab, ids_to_tokens, text, token_ids, enc_ids, dec_tokens,
                   dec_text, vocab_file, modelvars>>

\* ids = [tokenizer._convert_token_to_id(t) for t in tokens]
DoConvertTokensToIds ==
    /\ tpc = "tokens"
    /\ token_ids' = [k \in 1..Len(tokens_out) |-> ConvertTokenToId(vocab, tokens_out[k])]
    /\ tpc' = "ids"
    /\ UNCHANGED <<vocab, ids_to_tokens, text, tokens_out, enc_ids, dec_tokens,
                   dec_text, vocab_file, modelvars>>

\* ids = tokenizer.build_inputs_with_special_tokens(ids)
DoBuildInputs ==
    /\ tpc = "ids"
    /\ enc_ids' = BuildInputsWithSpecialTokens(vocab, token_ids)
    /\ tpc' = "encoded"
    /\ UNCHANGED <<vocab, ids_to_tokens, text, tokens_out, token_ids, dec_tokens,
                   dec_text, vocab_file, modelvars>>

\* tokens = [tokenizer._convert_id_to_token(i) for i in ids]
DoConvertIdsToTokens ==
    /\ tpc = "encoded"
    /\ dec_tokens' = [k \in 1..Len(enc_ids) |-> ConvertIdToToken(ids_to_tokens, enc_ids[k])]
    /\ tpc' = "decoded"
    /\ UNCHANGED <<vocab, ids_to_tokens, text, tokens_out, token_ids, enc_ids,
                   dec_text, vocab_file, modelvars>>

\* s = tokenizer.convert_tokens_to_string(tokens)
DoConvertTokensToString ==
    /\ tpc = "decoded"
    /\ dec_text' = ConvertTokensToString(dec_tokens)
    /\ tpc' = "string"
    /\ UNCHANGED <<vocab, ids_to_tokens, text, tokens_out, token_ids, enc_ids,
                   dec_tokens, vocab_file, modelvars>>

\* get_vocab: returns self.vocab
GetVocab == UNCHANGED vars

\* save_vocabulary: one line per token of all_tokens
SaveVocabulary ==
    /\ vocab_file' = all_tokens
    /\ UNCHANGED <<vocab, ids_to_tokens, text, tpc, tokens_out, token_ids, enc_ids,
                   dec_tokens, dec_text, modelvars>>

NextTokenizer ==
    \/ DoTokenize
    \/ DoConvertTokensToIds
    \/ DoBuildInputs
    \/ DoConvertIdsToTokens
    \/ DoConvertTokensToString
    \/ GetVocab
    \/ SaveVocabulary

SpecTokenizer == InitTokenizer /\ [][NextTokenizer]_vars

----------------------------------------------------------------------------
(* The model as a state machine: one call of forward or of generate         *)

\* outputs = model.forward(input_ids, descriptors[, labels])
CallForward ==
    /\ mpc = "idle"
    /\ \E ids \in Batches(config), D \in DescDims, with_labels \in BOOLEAN :
         \E labs \in (IF with_labels THEN LabelChoices(config, ids) ELSE {<<>>}) :
            LET out == Forward(config, ids, D, with_labels, labs)
            IN  /\ input_ids' = ids
                /\ desc_dim' = D
                /\ has_labels' = with_labels
                /\ labels' = labs
                /\ fwd_out' = out
                /\ fwd_len' = Len(ids[1])
                /\ error' = IF out.status = "ok" THEN "none" ELSE out.status
                /\ mpc' = IF out.status = "ok" THEN "forwarded" ELSE "raised"
    /\ UNCHANGED <<config, max_length, generated, steps, exit, tokvars>>

\* model.generate(input_ids, descriptors, max_length) up to its loop:
\* generated = input_ids; range(max_length) is empty for max_length = 0
CallGenerate ==
    /\ mpc = "idle"
    /\ \E ids \in Batches(config), D \in DescDims, n \in 0..MaxNewTokens :
            /\ input_ids' = ids
            /\ desc_dim' = D
            /\ max_length' = n
            /\ generated' = ids
            /\ mpc' = IF n = 0 THEN "done" ELSE "loop"
            /\ exit' = IF n = 0 THEN "exhausted" ELSE "none"
    /\ UNCHANGED <<config, has_labels, labels, fwd_out, steps, error, fwd_len, tokvars>>

\* One iteration of generate's loop: forward on generated, the arg-max token of
\* the last position of every row (any token id: the weights are not modelled),
\* appended; then the stop test, and the end of range(max_length).
GenerateStep ==
    /\ mpc = "loop"
    /\ LET out == Forward(config, generated, desc_dim, FALSE, <<>>)
           T == Len(generated[1])
       IN  /\ fwd_len' = IF T > fwd_len THEN T ELSE fwd_len
           /\ \/ \* forward raises
                 /\ out.status # "ok"
                 /\ error' = out.status
                 /\ mpc' = "raised"
                 /\ exit' = "raised"
                 /\ UNCHANGED <<generated, steps>>
              \/ \* outputs.logits[:, -1, :] on logits without a position
                 /\ out.status = "ok"
                 /\ T = 0
                 /\ error' = "IndexError"
                 /\ mpc' = "raised"
                 /\ exit' = "raised"
                 /\ UNCHANGED <<generated, steps>>
              \/ /\ out.status = "ok"
                 /\ T > 0
                 /\ \E next_token \in [1..Len(generated) -> TokenIds(config)] :
                       /\ generated' = [b \in 1..Len(generated) |->
                                           Append(generated[b], next_token[b])]
                       /\ steps' = steps + 1
                       /\ IF StopTest(next_token, config.padding_idx)
                          THEN mpc' = "done" /\ exit' = "break"
                          ELSE IF steps + 1 = max_length
                          THEN mpc' = "done" /\ exit' = "exhausted"
                          ELSE mpc' = "loop" /\ exit' = "none"
                 /\ UNCHANGED error
    /\ UNCHANGED <<config, input_ids, desc_dim, has_labels, labels, fwd_out,
                   max_length, tokvars>>

NextModel ==
    \/ CallForward
    \/ CallGenerate
    \/ GenerateStep

\* a model in use, beside a tokenizer that is built and not used
InitModel == text = <<>> /\ TokenizerBuilt /\ ModelBuilt

SpecModel == InitModel /\ [][NextModel]_vars

----------------------------------------------------------------------------
(* Properties of the tokenizer                                             *)

\* whether s is a concatenation of non-special vocabulary tokens, from i on
RECURSIVE IsVocabConcatFrom(_, _)
IsVocabConcatFrom(s, i) ==
    \/ i > Len(s)
    \/ \E t \in Range(tokens) :
          /\ i + Len(t) - 1 <= Len(s)
          /\ SubSeq(s, i, i + Len(t) - 1) = t
          /\ IsVocabConcatFrom(s, i + Len(t))

IsVocabConcat(s) == IsVocabConcatFrom(s, 1)

\* C3: for a string that is a concatenation of non-special vocabulary tokens,
\* tokenizing, converting to ids, wrapping with BOS/EOS, converting back and
\* joining with the special tokens stripped gives the string back.
C3_RoundTrip ==
    (tpc = "string" /\ IsVocabConcat(text)) => dec_text = text

\* a string of several vocabulary tokens, one of them longer than a character,
\* has gone through the whole pipeline
C3_Witness ==
    /\ tpc = "string"
    /\ IsVocabConcat(text)
    /\ Len(tokens_out) >= 2
    /\ \E k \in 1..Len(tokens_out) : Len(tokens_out[k]) >= 2
    /\ enc_ids = <<vocab[bos_token]>> \o token_ids \o <<vocab[eos_token]>>
    /\ dec_text = text

\* all_tokens lists no token string twice, and the dictionaries the constructor
\* builds from it map the token strings onto 0..N-1 and back
BuiltVocabIsBijection ==
    /\ \A i, j \in 1..Len(all_tokens) : all_tokens[i] = all_tokens[j] => i = j
    /\ DOMAIN BuiltVocab = Range(all_tokens)
    /\ DOMAIN BuiltIdsToTokens = 0..(Len(all_tokens) - 1)
    /\ \A t \in DOMAIN BuiltVocab : BuiltIdsToTokens[BuiltVocab[t]] = t
    /\ \A i \in DOMAIN BuiltIdsToTokens : BuiltVocab[BuiltIdsToTokens[i]] = i

\* C7: the vocabulary is a bijection between the token strings and the ids
\* 0..N-1 (no token string is listed twice, vocab and ids_to_tokens are inverse
\* to each other), and whatever tokenizer operation has run, vocab and
\* ids_to_tokens are still the dictionaries the constructor built.
C7_VocabBijection ==
    /\ BuiltVocabIsBijection
    /\ vocab = BuiltVocab
    /\ ids_to_tokens = BuiltIdsToTokens

\* every tokenizer operation has run, the vocabulary file included
C7_Witness ==
    /\ tpc = "string"
    /\ vocab_file = all_tokens
    /\ Len(tokens_out) >= 1
    /\ Cardinality(DOMAIN vocab) = Cardinality(DOMAIN ids_to_tokens)

\* the tokens that the matches starting at the positions in starts make, in order
RECURSIVE MatchesAt(_, _)
MatchesAt(s, starts) ==
    IF starts = {} THEN <<>>
    ELSE LET p == CHOOSE q \in starts : \A r \in starts : q <= r
         IN  <<SubSeq(s, p, p + MatchLen(s, p) - 1)>> \o MatchesAt(s, starts \ {p})

\* the positions of s inside the matches that start at the positions in starts
CoveredBy(s, starts) ==
    UNION {p..(p + MatchLen(s, p) - 1) : p \in starts}

RECURSIVE KeepOnly(_, _, _)
KeepOnly(s, keep, i) ==
    IF i > Len(s) THEN <<>>
    ELSE (IF i \in keep THEN <<s[i]>> ELSE <<>>) \o KeepOnly(s, keep, i + 1)

\* C10: _tokenize returns, for every string, the pattern's matches at positions
\* chosen left to right: the matches do not overlap, a character outside them is
\* one at which no alternative matches, the tokens joined are the string without
\* those characters, and none of them became '<UNK>'.
C10_TokenizeDropsUnmatched ==
    tpc = "tokens" =>
        /\ unk_token \notin Range(tokens_out)
        /\ \E starts \in SUBSET {p \in 1..Len(text) : MatchLen(text, p) > 0} :
              /\ \A p, q \in starts :
                    p < q => p + MatchLen(text, p) <= q
              /\ \A p \in (1..Len(text)) \ CoveredBy(text, starts) :
                    MatchLen(text, p) = 0
              /\ tokens_out = MatchesAt(text, starts)
              /\ Flatten(tokens_out) = KeepOnly(text, CoveredBy(text, starts), 1)

\* a string with a matched token and a dropped character has been tokenized
C10_Witness ==
    /\ tpc = "tokens"
    /\ tokens_out # <<>>
    /\ Len(Flatten(tokens_out)) < Len(text)
    /\ \E p \in 1..Len(text) : MatchLen(text, p) = 0 /\ text[p] \notin Range(Flatten(tokens_out))

----------------------------------------------------------------------------
(* Properties of the model                                                 *)

\* the call under way, or ended, is one of generate
InGenerate == mpc \in {"loop", "done"} \/ exit = "raised"

\* every row of generated has padding_idx at (1-based) position c
ColumnAllPad(c) == \A b \in 1..Len(generated) : generated[b][c] = config.padding_idx

PromptLen == Len(input_ids[1])

\* C1: generate's loop appends at most max_length tokens and goes on only while
\* iterations remain; it ends before max_length iterations, by its break,
\* exactly at the first iteration whose appended token is padding_idx in every
\* row.
C1_GenerateTerminates ==
    InGenerate =>
        /\ steps <= max_length
        /\ \A b \in 1..Len(generated) : Len(generated[b]) = PromptLen + steps
        /\ mpc = "loop" => steps < max_length
        /\ (steps >= 1 /\ ColumnAllPad(PromptLen + steps)) =>
              (mpc = "done" /\ exit = "break")
        /\ exit = "break" => (steps >= 1 /\ ColumnAllPad(PromptLen + steps))
        /\ \A k \in 1..(steps - 1) : ~ColumnAllPad(PromptLen + k)
        /\ (mpc = "done" /\ exit # "break") => steps = max_length

\* a batch of two stopped by the break before max_length iterations, after an
\* iteration in which only one of the rows produced padding_idx
C1_Witness ==
    /\ mpc = "done"
    /\ exit = "break"
    /\ Len(generated) = 2
    /\ steps = 2
    /\ steps < max_length
    /\ \E b \in 1..2 : generated[b][PromptLen + 1] = config.padding_idx

\* the rows that agree with row on the positions 1..i
AltRows(row, i) ==
    {r \in [1..Len(row) -> TokenIds(config)] : \A k \in 1..i : r[k] = row[k]}

\* the inputs (token embeddings, descriptor bits) a value is computed from
RECURSIVE Support(_)
Support(v) ==
    IF v.op = "lm_head" THEN Support(v.x)
    ELSE IF v.op = "layer"
    THEN Support(v.self) \cup UNION {Support(v.att[q]) : q \in DOMAIN v.att}
    ELSE {v}

\* C2: the logits of token position i do not change when the token ids after
\* position i change (descriptors and earlier tokens fixed), and they are
\* computed from no token position after i.
C2_CausalNonInterference ==
    mpc = "forwarded" =>
        \A b \in 1..Len(input_ids) :
            /\ \A i \in 0..Len(input_ids[b]) :
                  \A alt \in AltRows(input_ids[b], i) :
                      LET out == Forward(config, <<alt>>, desc_dim, FALSE, <<>>)
                      IN  /\ out.status = "ok"
                          /\ \A k \in 1..i : out.logits[1][k] = fwd_out.logits[b][k]
            /\ \A k \in 1..Len(fwd_out.logits[b]) :
                  \A leaf \in Support(fwd_out.logits[b][k]) :
                      leaf.op = "emb" => leaf.pos <= k - 1

\* forward has run on a row of two tokens; changing the second token changes the
\* logits of the second position and not those of the first
C2_Witness ==
    /\ mpc = "forwarded"
    /\ Len(input_ids[1]) = 2
    /\ \E alt \in AltRows(input_ids[1], 1) :
          LET out == Forward(config, <<alt>>, desc_dim, FALSE, <<>>)
          IN  /\ alt # input_ids[1]
              /\ out.logits[1][1] = fwd_out.logits[1][1]
              /\ out.logits[1][2] # fwd_out.logits[1][2]

\* the input position a value belongs to: through the layers' residual path
RECURSIVE Origin(_)
Origin(v) ==
    IF v.op = "lm_head" THEN Origin(v.x)
    ELSE IF v.op = "layer" THEN Origin(v.self)
    ELSE v

\* C4: forward returns logits for exactly the T token positions, in order: the
\* logits at position t are those of the concatenated sequence's position D + t,
\* the one that holds token t.
C4_LogitsCoverTokens ==
    mpc = "forwarded" =>
        /\ Len(fwd_out.logits) = Len(input_ids)
        /\ \A b \in 1..Len(input_ids) :
              /\ Len(fwd_out.logits[b]) = Len(input_ids[b])
              /\ \A t \in 1..Len(input_ids[b]) :
                    Origin(fwd_out.logits[b][t]) =
                        [op |-> "emb", tok |-> input_ids[b][t], pos |-> t - 1]

\* forward has returned logits for a batch of two rows of two tokens, behind a
\* descriptor segment of the configured size
C4_Witness ==
    /\ mpc = "forwarded"
    /\ desc_dim = config.desc_size
    /\ desc_dim >= 1
    /\ Len(input_ids) = 2
    /\ Len(input_ids[1]) = 2
    /\ Len(fwd_out.logits[2]) = 2

\* the (row, position) pairs whose label is not the padding index
KeptLabels ==
    {bt \in (1..Len(labels)) \X (1..PromptLen) : labels[bt[1]][bt[2]] # config.padding_idx}

\* C5: with labels, the loss is the mean cross entropy of the positions whose
\* label is not padding_idx, and labels that are all padding_idx give a loss
\* that is not NaN and contributes nothing.
C5_LossIgnoresPadding ==
    (mpc = "forwarded" /\ has_labels /\ PromptLen >= 1) =>
        /\ fwd_out.loss # NaN
        /\ KeptLabels # {} =>
              /\ fwd_out.loss.op = "mean"
              /\ {fwd_out.loss.of[k] : k \in DOMAIN fwd_out.loss.of} =
                     {[op |-> "ce", logits |-> fwd_out.logits[bt[1]][bt[2]],
                       target |-> labels[bt[1]][bt[2]]] : bt \in KeptLabels}
              /\ Cardinality(DOMAIN fwd_out.loss.of) = Cardinality(KeptLabels)
        /\ KeptLabels = {} => fwd_out.loss = [op |-> "zero"]

\* C6: a descriptor width other than desc_size ends forward and generate with
\* the encoder's AssertionError, no logits returned and no token appended (when
\* the position lookup of the token embeddings, which runs first, raised
\* nothing); the assert is the only exception of the code's own, the others
\* being index errors of tensor operations.
C6_DescriptorMismatchFailsFast ==
    /\ \A D \in DescDims :
          D # config.desc_size =>
              DescriptorEncoder(config.desc_size, D) =
                  [status |-> "AssertionError", emb |-> <<>>]
    /\ (mpc # "idle" /\ desc_dim # config.desc_size) =>
          /\ mpc # "forwarded"
          /\ fwd_out.status # "ok"
          /\ fwd_out.logits = <<>>
          /\ InGenerate => (steps = 0 /\ generated = input_ids)
          /\ (mpc = "raised" /\ fwd_len <= config.max_position_embeddings) =>
                error = "AssertionError"
    /\ error = "AssertionError" => desc_dim # config.desc_size
    /\ error \in {"none", "AssertionError", "IndexError"}

\* generate was called with one descriptor too many and ended in the assert
C6_Witness ==
    /\ exit = "raised"
    /\ error = "AssertionError"
    /\ desc_dim = config.desc_size + 1
    /\ generated = input_ids
    /\ max_length >= 1

\* C8: the id of '<PAD>' in the tokenizer's vocabulary is the model's padding
\* index, and '<PAD>' is the only token with id 0.
C8_PadTokenIsPaddingIdx ==
    /\ vocab[pad_token] = config.padding_idx
    /\ \A t \in DOMAIN vocab : vocab[t] = 0 => t = pad_token

\* C9: in a call of generate with a prompt no longer than
\* max_position_embeddings, no token sequence handed to forward is longer than
\* max_position_embeddings.
C9_SequenceWithinPositions ==
    (InGenerate /\ PromptLen <= config.max_position_embeddings) =>
        fwd_len <= config.max_position_embeddings

\* the values a value attends to, layer by layer down its residual path: the
\* sets of attended positions, outermost layer first
RECURSIVE AttendedSets(_)
AttendedSets(v) ==
    IF v.op = "lm_head" THEN AttendedSets(v.x)
    ELSE IF v.op = "layer" THEN <<DOMAIN v.att>> \o AttendedSets(v.self)
    ELSE <<>>

\* C11: the mask of a forward call on D descriptor and T token positions is
\* (D+T) x (D+T) and disallows (i, j) exactly when j > i; so in every layer token
\* position t (counted from 0) attends to the D descriptor positions and the
\* token positions 0..t, and to no later one.
C11_CausalMaskShape ==
    mpc = "forwarded" =>
        LET L == desc_dim + PromptLen
            mask == generate_causal_mask(L)
        IN  /\ Len(mask) = L
            /\ \A i \in 1..L :
                  /\ Len(mask[i]) = L
                  /\ \A j \in 1..L : (mask[i][j] = "-inf") <=> (j > i)
            /\ \A b \in 1..Len(input_ids) :
                  \A t \in 1..PromptLen :
                      LET att == AttendedSets(fwd_out.logits[b][t])
                      IN  /\ Len(att) = config.n_layers
                          /\ \A n \in 1..Len(att) : att[n] = 1..(desc_dim + t)

\* forward has run on two descriptor positions or more and two tokens or more:
\* the first token attends to the descriptors and itself, not to the second
C11_Witness ==
    /\ mpc = "forwarded"
    /\ desc_dim >= 2
    /\ PromptLen >= 2
    /\ AttendedSets(fwd_out.logits[1][1])[1] = 1..(desc_dim + 1)
    /\ (desc_dim + 2) \notin AttendedSets(fwd_out.logits[1][1])[1]
    /\ AttendedSets(fwd_out.logits[1][2])[1] = 1..(desc_dim + 2)

\* what generate returns, against its arguments: the prompt, then one column
\* per iteration
ReturnedShape ==
    /\ steps <= max_length
    /\ max_length >= 1 => steps >= 1
    /\ max_length = 0 => generated = input_ids
    /\ Len(generated) = Len(input_ids)
    /\ \A b \in 1..Len(generated) :
          /\ Len(generated[b]) = PromptLen + steps
          /\ SubSeq(generated[b], 1, PromptLen) = input_ids[b]
          /\ \A c \in (PromptLen + 1)..(PromptLen + steps) :
                generated[b][c] \in TokenIds(config)
    /\ steps < max_length => ColumnAllPad(PromptLen + steps)

\* C12: generate only appends. Entering the loop leaves the prompt as it is; an
\* iteration either raises and changes nothing, or appends one token to every
\* row, also to a row that produced padding_idx before, and rewrites none; the
\* result is the prompt followed by k columns, 1 <= k <= max_length (k = 0 for
\* max_length = 0), with k < max_length only when the last column is padding_idx
\* in every row.
C12_GenerateOnlyAppends ==
    [][ /\ (mpc = "idle" /\ mpc' \in {"loop", "done"}) =>
              (generated' = input_ids' /\ steps' = 0)
        /\ mpc = "loop" =>
              \/ mpc' = "raised" /\ generated' = generated /\ steps' = steps
              \/ /\ steps' = steps + 1
                 /\ input_ids' = input_ids
                 /\ \E next_token \in [1..Len(generated) -> TokenIds(config)] :
                       generated' = [b \in 1..Len(generated) |->
                                        Append(generated[b], next_token[b])]
        /\ (mpc # "done" /\ mpc' = "done") => ReturnedShape'
      ]_vars

\* generate has returned a batch of two in which a row that produced
\* padding_idx in the first iteration got another token in the second
C12_Witness ==
    /\ mpc = "done"
    /\ Len(generated) = 2
    /\ steps >= 2
    /\ ReturnedShape
    /\ \E b \in 1..2 :
          /\ generated[b][PromptLen + 1] = config.padding_idx
          /\ generated[b][PromptLen + 2] # config.padding_idx

\* whether the sequence part occurs in s as a contiguous piece
Occurs(part, s) ==
    \E i \in 1..(Len(s) - Len(part) + 1) : SubSeq(s, i, i + Len(part) - 1) = part

\* pattern matches that the vocabulary does not list
UnlistedMatches ==
    { <<"/">>, <<"\\">>, <<".">>, <<"0">>, <<"S","i">>, <<"S","e">>, <<"A","s">>,
      <<"%","1","3">>, <<"[","X","e","]">> }

\* each of them is one match of the pattern and no token of the vocabulary
UnlistedMatchesAreUnknown ==
    \A m \in UnlistedMatches :
        /\ Tokenize(m) = <<m>>
        /\ m \notin DOMAIN BuiltVocab
        /\ ConvertTokenToId(BuiltVocab, m) = BuiltVocab[unk_token]

\* C13: for every string, decoding its encoding gives the pattern matches that
\* are vocabulary tokens, joined in order; a match the vocabulary lacks gets the
\* id of '<UNK>' and is removed with BOS and EOS on the way back, and the decoded
\* string contains the text of no special token.
C13_DecodeKeepsVocabMatches ==
    /\ UnlistedMatchesAreUnknown
    /\ tpc = "string" =>
          /\ dec_text = Flatten(SelectSeq(tokens_out, LAMBDA t : t \in Range(tokens)))
          /\ Len(dec_tokens) = Len(tokens_out) + 2
          /\ dec_tokens[1] = bos_token
          /\ dec_tokens[Len(dec_tokens)] = eos_token
          /\ \A k \in 1..Len(tokens_out) :
                /\ tokens_out[k] \notin Range(special_tokens_list)
                /\ tokens_out[k] \in Range(tokens) =>
                      (token_ids[k] = vocab[tokens_out[k]] /\ dec_tokens[k + 1] = tokens_out[k])
                /\ tokens_out[k] \notin Range(tokens) =>
                      (token_ids[k] = vocab[unk_token] /\ dec_tokens[k + 1] = unk_token)
          /\ \A sp \in Range(special_tokens_list) : ~Occurs(sp, dec_text)

\* a string with a vocabulary token and a match the vocabulary lacks has been
\* encoded and decoded: the match is gone from the result
C13_Witness ==
    /\ tpc = "string"
    /\ \E k \in 1..Len(tokens_out) : tokens_out[k] \in UnlistedMatches
    /\ \E k \in 1..Len(tokens_out) : tokens_out[k] \in Range(tokens)
    /\ unk_token \in Range(dec_tokens)
    /\ dec_text # <<>>
    /\ dec_text # Flatten(tokens_out)

=============================================================================
